---- MODULE Spec2Model ----
(***************************************************************************)
(* Configuration generation and deployment pipeline of the network         *)
(* automation tool: inventory_tool.py (device inventory), connection_tool  *)
(* .py (session handling, template rendering, the `configure` command) and *)
(* task-2/main.py (text generation, sanitizing, the pipeline driver).      *)
(*                                                                         *)
(* Python strings are TLA+ strings; a Python list is a sequence; None is   *)
(* the model value None.                                                   *)
(***************************************************************************)
EXTENDS Integers, Sequences, FiniteSets, TLC

VARIABLES
    config,            \* sanitizer: the raw text handed to process_generated_config
    commands,          \* sanitizer: its result
    commands2,         \* sanitizer: the result of a second pass over the joined result
    spc,               \* sanitizer: position ("start", "once", "twice")
    inventory,         \* the inventory: a list of device records (csv.DictReader rows)
    fn,                \* connection tool: the function invoked last
    device,            \* connection tool: the connection parameters it was called with
    sc_commands,       \* send_config / send_commands: the command list passed
    calls,             \* connection tool: invocations so far
    pc,                \* connection tool: position in the code
    conn,              \* what connect_device returned, or the connection passed to
                       \* send_commands (None or a handle)
    openTransports,    \* transport connections established and not yet disconnected
    established,       \* ConnectHandler calls of this invocation that connected
    disconnects,       \* conn.disconnect() calls of this invocation
    applyCalls,        \* conn.send_config_set() calls of this invocation
    openFailed,        \* whether connect_device took its except branch
    output,            \* what send_config / get_interface_brief returned (None while
                       \* it runs)
    result,            \* what send_commands returned
    action,            \* render / configure: "create" or "delete"
    interface,         \* render / configure: the interface name
    ip_address,        \* render / configure: the address
    subnet_mask,       \* render / configure: the mask
    device_name,       \* configure: the --device option
    rendered,          \* what render_interface_config returned (None before the call)
    cmds,              \* the list `configure` built (None before it is built)
    before,            \* inventory tool: the inventory before the last operation
    lastOp,            \* inventory tool: the last operation and its argument
    requirements,      \* main: the requirements typed by the user
    idx,               \* main: the position of the for loop in the inventory (1-based)
    mpc,               \* main: position in the code
    backend,           \* main: what the text-generation backend did for this device
    generated_config,  \* main: what generate_device_config returned for this device
    config_commands,   \* main: what process_generated_config returned for this device
    apply,             \* main: the answer to "Apply configuration ...? (y/N)"
    log                \* main: what happened so far, in order

sanVars == <<config, commands, commands2, spc>>
depVars == <<fn, device, sc_commands, calls, pc, conn, openTransports, established,
             disconnects, applyCalls, openFailed, output, result>>
renVars == <<action, interface, ip_address, subnet_mask, device_name, rendered, cmds>>

invVars == <<inventory, before, lastOp>>
mainVars == <<requirements, idx, mpc, backend, generated_config, config_commands, apply, log>>

vars == <<sanVars, depVars, renVars, invVars, mainVars>>

\* Python's None, where a string, a dict or a list is expected.
None == "<None>"
NoRecord == [Name |-> None]
NoList == <<None>>
NoResult == [returned |-> FALSE]

(***************************************************************************)
(* Bounds of the model.                                                    *)
(***************************************************************************)
MaxChunks == 3
MaxCmds == 2
MaxCalls == 2
MaxValParts == 1
MaxInv == 3
MaxDevices == 3

(***************************************************************************)
(* Python str methods, computed character by character.                    *)
(***************************************************************************)
\* The characters str.strip() removes (those str.isspace() holds of): space, \t,
\* \n, \r, \f, and, written raw in the strings below, U+000B (vertical tab),
\* U+001C..U+001F (file, group, record, unit separator), U+0085 (next line),
\* U+00A0 (no-break space), U+1680 (ogham space mark).  The remaining Unicode
\* spaces (U+2000..U+200A, U+2028, U+2029, U+202F, U+205F, U+3000) cannot occur
\* in a string of this module, so no input holds them.
Whitespace ==
    {" ", "\t", "\n", "\r", "\f", "", "", "", "", "", "", " ",
     " "}

\* The characters str.splitlines() breaks a line at: \n, \r, \f, U+000B,
\* U+001C, U+001D, U+001E, U+0085 (and U+2028, U+2029, which no string of this
\* module can hold).
LineBreaks == {"\n", "\r", "\f", "", "", "", "", ""}

Char(s, i) == SubSeq(s, i, i)

Min(S) == CHOOSE x \in S : \A y \in S : x <= y
Max(S) == CHOOSE x \in S : \A y \in S : x >= y

\* The positions of s holding a character of set cs.
Positions(s, cs) == {i \in 1..Len(s) : Char(s, i) \in cs}

NonSpace(s) == {i \in 1..Len(s) : Char(s, i) \notin Whitespace}

lstrip(s) == IF NonSpace(s) = {} THEN "" ELSE SubSeq(s, Min(NonSpace(s)), Len(s))

rstrip(s) == IF NonSpace(s) = {} THEN "" ELSE SubSeq(s, 1, Max(NonSpace(s)))

strip(s) == rstrip(lstrip(s))

startswith(s, p) == Len(s) >= Len(p) /\ SubSeq(s, 1, Len(p)) = p

\* The positions where old occurs in s.
Occurrences(s, old) ==
    {i \in 1..(Len(s) - Len(old) + 1) : SubSeq(s, i, i + Len(old) - 1) = old}

\* s.replace(old, ""): every non-overlapping occurrence of old, left to right.
RECURSIVE replace(_, _)
replace(s, old) ==
    IF Occurrences(s, old) = {} THEN s
    ELSE LET first == Min(Occurrences(s, old)) IN
         SubSeq(s, 1, first - 1) \o replace(SubSeq(s, first + Len(old), Len(s)), old)

\* s.split(sep) for a one-character sep: Len(result) = 1 + occurrences of sep.
RECURSIVE split(_, _)
split(s, sep) ==
    IF Positions(s, {sep}) = {} THEN <<s>>
    ELSE LET first == Min(Positions(s, {sep})) IN
         <<SubSeq(s, 1, first - 1)>> \o split(SubSeq(s, first + 1, Len(s)), sep)

\* s.splitlines(): breaks at each character of LineBreaks and at \r\n as one; no
\* empty last line.
RECURSIVE splitlines(_)
splitlines(s) ==
    IF s = "" THEN <<>>
    ELSE IF Positions(s, LineBreaks) = {} THEN <<s>>
    ELSE LET first == Min(Positions(s, LineBreaks))
             width == IF startswith(SubSeq(s, first, Len(s)), "\r\n") THEN 2 ELSE 1
         IN <<SubSeq(s, 1, first - 1)>> \o splitlines(SubSeq(s, first + width, Len(s)))

\* sep.join(lines)
RECURSIVE join(_, _)
join(sep, lines) ==
    IF lines = <<>> THEN ""
    ELSE IF Len(lines) = 1 THEN lines[1]
    ELSE lines[1] \o sep \o join(sep, Tail(lines))

(***************************************************************************)
(* task-2/main.py: process_generated_config                                *)
(***************************************************************************)
\* One iteration of the loop over lines: the commands this line appends.
SanitizeLine(raw) ==
    LET line == strip(raw) IN
    IF line # "" /\ ~startswith(line, "#") /\ ~startswith(line, "!")
    THEN LET stripped ==
                 IF startswith(line, "Router(config)#")
                 THEN strip(replace(line, "Router(config)#"))
                 ELSE IF startswith(line, "(config)#")
                 THEN strip(replace(line, "(config)#"))
                 ELSE IF startswith(line, "R1(config)#")
                 THEN strip(replace(line, "R1(config)#"))
                 ELSE line
         IN IF stripped # "" THEN <<stripped>> ELSE <<>>
    ELSE <<>>

RECURSIVE SanitizeLines(_)
SanitizeLines(lines) ==
    IF lines = <<>> THEN <<>>
    ELSE SanitizeLine(Head(lines)) \o SanitizeLines(Tail(lines))

process_generated_config(cfg) ==
    IF cfg = None \/ cfg = "" THEN <<>>
    ELSE SanitizeLines(split(strip(cfg), "\n"))

(***************************************************************************)
(* The state of each part before it runs; a specification leaves the parts *)
(* it does not exercise in this state.                                     *)
(***************************************************************************)
InvIdle(inv) ==
    /\ inventory = inv
    /\ before = <<>>
    /\ lastOp = <<"none", "">>

MainIdle ==
    /\ requirements = ""
    /\ idx = 0
    /\ mpc = "start"
    /\ backend = <<"none", "", "">>
    /\ generated_config = None
    /\ config_commands = <<>>
    /\ apply = ""
    /\ log = <<>>

SanIdle ==
    /\ config = ""
    /\ commands = <<>>
    /\ commands2 = <<>>
    /\ spc = "start"

(***************************************************************************)
(* inventory_tool.py: records and lookup                                   *)
(***************************************************************************)
Record(name, ip) ==
    [Name |-> name, ManagementIP |-> ip, Username |-> "admin", Password |-> "x",
     Description |-> "core"]

Names == {"R1", "R2"}
Addresses == {"10.0.0.1", "10.0.0.2"}
Records == {Record(n, a) : n \in Names, a \in Addresses}

RECURSIVE get_device_data(_, _)
get_device_data(inv, name) ==
    IF inv = <<>> THEN NoRecord
    ELSE IF Head(inv).Name = name THEN Head(inv)
    ELSE get_device_data(Tail(inv), name)

(***************************************************************************)
(* connection_tool.py: get_conn_info, connect_device, send_config,         *)
(* establish_connection, send_commands, get_interface_brief                *)
(***************************************************************************)
get_conn_info(dev_data) ==
    [device_type |-> "cisco_ios", host |-> dev_data.ManagementIP,
     username |-> dev_data.Username, password |-> dev_data.Password,
     secret |-> dev_data.Password]

\* What ConnectHandler(**device) can do: connect, or raise.
ConnectOutcomes == {"connected", "unreachable", "auth_failed"}

\* What the device answers to send_config_set.
Transcripts == {"", "R1(config)#"}

\* What conn.send_config_set / conn.send_command can do: return text, or raise.
Replies == {<<"ok", t>> : t \in Transcripts} \cup {<<"raise", "timed out">>}

ConnectionFailedText == "Connection failed; configuration not sent."
ErrorSendingText == "Error sending configuration: timed out"
BriefFailedText == "Connection failed; cannot retrieve interface brief."
ErrorBriefText == "Error retrieving interface brief: timed out"

DepIdle ==
    /\ fn = "none"
    /\ device = NoRecord
    /\ sc_commands = <<>>
    /\ calls = 0
    /\ pc = "idle"
    /\ conn = None
    /\ openTransports = 0
    /\ established = 0
    /\ disconnects = 0
    /\ applyCalls = 0
    /\ openFailed = FALSE
    /\ output = None
    /\ result = NoResult

\* A function that starts with connect_device(dev) is entered.
EnterConnect(name, dev, cmdlist) ==
    /\ fn' = name
    /\ device' = dev
    /\ sc_commands' = cmdlist
    /\ calls' = calls + 1
    /\ pc' = "cd_connect"
    /\ conn' = None
    /\ established' = 0
    /\ disconnects' = 0
    /\ applyCalls' = 0
    /\ openFailed' = FALSE
    /\ output' = None
    /\ result' = NoResult
    /\ UNCHANGED openTransports

\* send_config(dev, cmdlist) is entered: line 25 calls connect_device.
EnterSendConfig(dev, cmdlist) == EnterConnect("send_config", dev, cmdlist)

\* connect_device line 8: conn = ConnectHandler(**device)
ConnectHandler ==
    /\ pc = "cd_connect"
    /\ \E outcome \in ConnectOutcomes :
          IF outcome = "connected"
          THEN /\ openTransports' = openTransports + 1
               /\ established' = established + 1
               /\ pc' = "cd_enable"
          ELSE /\ pc' = "cd_except"
               /\ UNCHANGED <<openTransports, established>>
    /\ UNCHANGED <<fn, device, sc_commands, calls, conn, disconnects, applyCalls, openFailed,
                   output, result>>
    /\ UNCHANGED <<sanVars, renVars, invVars, mainVars>>

\* Where connect_device goes after conn.enable() returned (line 10) or raised (line 11).
AfterEnable(ok) == IF ok THEN "cd_return" ELSE "cd_except"

\* connect_device line 9: conn.enable()
Enable ==
    /\ pc = "cd_enable"
    /\ \E ok \in BOOLEAN : pc' = AfterEnable(ok)
    /\ UNCHANGED <<fn, device, sc_commands, calls, conn, openTransports, established,
                   disconnects, applyCalls, openFailed, output, result>>
    /\ UNCHANGED <<sanVars, renVars, invVars, mainVars>>

\* Where the caller of connect_device goes on with what it returned: send_config
\* line 26, get_interface_brief line 96, establish_connection line 48 (it
\* returns the value to its own caller).
AfterConnect(name) ==
    IF name = "send_config" THEN "sc_check"
    ELSE IF name = "get_interface_brief" THEN "gib_check"
    ELSE "returned"

\* connect_device line 10: return conn
ConnectReturn ==
    /\ pc = "cd_return"
    /\ conn' = "conn"
    /\ pc' = AfterConnect(fn)
    /\ UNCHANGED <<fn, device, sc_commands, calls, openTransports, established, disconnects,
                   applyCalls, openFailed, output, result>>
    /\ UNCHANGED <<sanVars, renVars, invVars, mainVars>>

\* A faulty variant: the except branch echoes the error and returns a handle.
ConnectExceptReturnsHandle ==
    /\ pc = "cd_except"
    /\ conn' = "conn"
    /\ openFailed' = TRUE
    /\ pc' = AfterConnect(fn)
    /\ UNCHANGED <<fn, device, sc_commands, calls, openTransports, established, disconnects,
                   applyCalls, output, result>>
    /\ UNCHANGED <<sanVars, renVars, invVars, mainVars>>

\* connect_device lines 11-13: echo the error, return None.
ConnectExcept ==
    /\ pc = "cd_except"
    /\ conn' = None
    /\ openFailed' = TRUE
    /\ pc' = AfterConnect(fn)
    /\ UNCHANGED <<fn, device, sc_commands, calls, openTransports, established, disconnects,
                   applyCalls, output, result>>
    /\ UNCHANGED <<sanVars, renVars, invVars, mainVars>>

\* send_config lines 26-27: if not conn: return the failure text.
CheckConn ==
    /\ pc = "sc_check"
    /\ IF conn = None
       THEN /\ output' = ConnectionFailedText
            /\ pc' = "returned"
       ELSE /\ pc' = "sc_apply"
            /\ UNCHANGED output
    /\ UNCHANGED <<fn, device, sc_commands, calls, conn, openTransports, established,
                   disconnects, applyCalls, openFailed, result>>
    /\ UNCHANGED <<sanVars, renVars, invVars, mainVars>>

\* send_config lines 28-31: output = conn.send_config_set(commands), or the error text.
Apply ==
    /\ pc = "sc_apply"
    /\ applyCalls' = applyCalls + 1
    /\ \/ \E t \in Transcripts : output' = t
       \/ output' = ErrorSendingText
    /\ pc' = "sc_finally"
    /\ UNCHANGED <<fn, device, sc_commands, calls, conn, openTransports, established,
                   disconnects, openFailed, result>>
    /\ UNCHANGED <<sanVars, renVars, invVars, mainVars>>

\* send_config lines 32-34: finally conn.disconnect(); return output.
Disconnect ==
    /\ pc = "sc_finally"
    /\ disconnects' = disconnects + 1
    /\ openTransports' = openTransports - 1
    /\ pc' = "returned"
    /\ UNCHANGED <<fn, device, sc_commands, calls, conn, established, applyCalls, openFailed,
                   output, result>>
    /\ UNCHANGED <<sanVars, renVars, invVars, mainVars>>

\* get_interface_brief lines 96-97: if not conn: return the failure text.
BriefCheckConn ==
    /\ pc = "gib_check"
    /\ IF conn = None
       THEN /\ output' = BriefFailedText
            /\ pc' = "returned"
       ELSE /\ pc' = "gib_send"
            /\ UNCHANGED output
    /\ UNCHANGED <<fn, device, sc_commands, calls, conn, openTransports, established,
                   disconnects, applyCalls, openFailed, result>>
    /\ UNCHANGED <<sanVars, renVars, invVars, mainVars>>

\* get_interface_brief lines 98-101: output = conn.send_command(...), or the error text.
BriefSend ==
    /\ pc = "gib_send"
    /\ \/ \E t \in Transcripts : output' = t
       \/ output' = ErrorBriefText
    /\ pc' = "gib_finally"
    /\ UNCHANGED <<fn, device, sc_commands, calls, conn, openTransports, established,
                   disconnects, applyCalls, openFailed, result>>
    /\ UNCHANGED <<sanVars, renVars, invVars, mainVars>>

\* get_interface_brief lines 102-104: finally conn.disconnect(); return output.
BriefDisconnect ==
    /\ pc = "gib_finally"
    /\ disconnects' = disconnects + 1
    /\ openTransports' = openTransports - 1
    /\ pc' = "returned"
    /\ UNCHANGED <<fn, device, sc_commands, calls, conn, established, applyCalls, openFailed,
                   output, result>>
    /\ UNCHANGED <<sanVars, renVars, invVars, mainVars>>

\* send_commands lines 61-68: the dict it returns for a connection (None or a
\* handle) and what send_config_set did.
send_commands(connection, reply) ==
    IF connection = None THEN [success |-> FALSE, error |-> "No active connection"]
    ELSE IF reply[1] = "ok" THEN [success |-> TRUE, output |-> reply[2]]
    ELSE [success |-> FALSE, error |-> reply[2]]

(***************************************************************************)
(* connection_tool.py: render_interface_config and the `configure` command *)
(***************************************************************************)
\* A Jinja2 template: literal text and {{ variable }} pieces.
Text(t) == <<"text", t>>
Var(v) == <<"var", v>>

\* Template(template).render(**config_vars)
RECURSIVE Render(_, _)
Render(template, config_vars) ==
    IF template = <<>> THEN ""
    ELSE LET piece == Head(template) IN
         (IF piece[1] = "text" THEN piece[2] ELSE config_vars[piece[2]])
             \o Render(Tail(template), config_vars)

\* line.strip() for line in lines if line.strip()
RECURSIVE StripNonEmpty(_)
StripNonEmpty(lines) ==
    IF lines = <<>> THEN <<>>
    ELSE (IF strip(Head(lines)) # "" THEN <<strip(Head(lines))>> ELSE <<>>)
             \o StripNonEmpty(Tail(lines))

\* A faulty variant: the create template ends like the delete template.
RenderCreateTemplateShutdown ==
    << Text("\n        interface "), Var("interface"),
       Text("\n            ip address "), Var("ip_address"), Text(" "), Var("subnet"),
       Text("\n            shutdown\n        ") >>

\* lines 77-81
RenderCreateTemplate ==
    << Text("\n        interface "), Var("interface"),
       Text("\n            ip address "), Var("ip_address"), Text(" "), Var("subnet"),
       Text("\n            no shutdown\n        ") >>

\* lines 84-88
RenderDeleteTemplate ==
    << Text("\n        interface "), Var("interface"),
       Text("\n            no ip address\n            shutdown\n        ") >>

render_interface_config(act, intf, ip, mask) ==
    LET config_vars == IF act = "create"
                       THEN [interface |-> intf, ip_address |-> ip, subnet |-> mask]
                       ELSE [interface |-> intf]
        template_string == IF act = "create" THEN RenderCreateTemplate
                           ELSE RenderDeleteTemplate
    IN StripNonEmpty(splitlines(Render(template_string, config_vars)))

\* lines 126-130
ConfigureCreateTemplate ==
    << Text("\n        interface "), Var("interface"),
       Text("\n         ip address "), Var("ip_address"), Text(" "), Var("subnet"),
       Text("\n         no shutdown\n        ") >>

\* lines 133-137
ConfigureDeleteTemplate ==
    << Text("\n        interface "), Var("interface"),
       Text("\n         no ip address\n         shutdown\n        ") >>

\* click.prompt(text, default=...): an empty answer gives the default.
DefaultSubnet == "255.255.255.0"
prompt_default(answer, default) == IF answer = "" THEN default ELSE answer

\* configure lines 122-139: the command list it builds.
configure_cmds(act, intf, ip, mask) ==
    LET cfg == IF act = "create"
               THEN [interface |-> intf, ip_address |-> ip,
                     subnet |-> prompt_default(mask, DefaultSubnet)]
               ELSE [interface |-> intf]
        tmpl == IF act = "create" THEN ConfigureCreateTemplate
                ELSE ConfigureDeleteTemplate
    IN StripNonEmpty(splitlines(Render(tmpl, cfg)))

\* Option and prompt values: strings over ValueAlphabet of at most MaxValParts characters.
\* The last character is U+000B (vertical tab): white space and a line break.
ValueAlphabet == {"a b", "c", " ", "\n", ""}

RECURSIVE Values(_)
Values(n) ==
    IF n = 0 THEN {""}
    ELSE LET shorter == Values(n - 1) IN
         shorter \cup {v \o c : v \in shorter, c \in ValueAlphabet}

RenIdle ==
    /\ action = "create"
    /\ interface = ""
    /\ ip_address = ""
    /\ subnet_mask = ""
    /\ device_name = ""
    /\ rendered = NoList
    /\ cmds = NoList

RenInit ==
    /\ action \in {"create", "delete"}
    /\ interface \in Values(MaxValParts)
    /\ ip_address \in IF action = "create" THEN Values(MaxValParts) ELSE {""}
    /\ subnet_mask \in IF action = "create" THEN Values(MaxValParts) ELSE {""}
    /\ device_name = ""
    /\ rendered = NoList
    /\ cmds = NoList
    /\ InvIdle(<<Record("R1", "10.0.0.1"), Record("R2", "10.0.0.2")>>)
    /\ DepIdle
    /\ SanIdle
    /\ MainIdle

\* A call render_interface_config(action, interface, ip_address, subnet_mask).
CallRender ==
    /\ rendered = NoList
    /\ pc = "idle"
    /\ rendered' = render_interface_config(action, interface, ip_address, subnet_mask)
    /\ UNCHANGED <<action, interface, ip_address, subnet_mask, device_name, cmds>>
    /\ UNCHANGED <<depVars, sanVars, invVars, mainVars>>

\* The --device values tried: one in the inventory, one not.
DeviceOptions == {"R1", "R9"}

\* configure lines 116-120: the device is not in the inventory.
ConfigureNotFound ==
    /\ pc = "idle"
    /\ \E name \in DeviceOptions :
          /\ get_device_data(inventory, name) = NoRecord
          /\ device_name' = name
    /\ pc' = "not_found"
    /\ UNCHANGED <<fn, device, sc_commands, calls, conn, openTransports, established,
                   disconnects, applyCalls, openFailed, output, result>>
    /\ UNCHANGED <<action, interface, ip_address, subnet_mask, rendered, cmds>>
    /\ UNCHANGED <<sanVars, invVars, mainVars>>

\* configure lines 116-143: look the device up, prompt, build cmds, call send_config.
\* click re-prompts for the address until the answer is not empty.
Configure ==
    /\ pc = "idle"
    /\ action = "create" => ip_address # ""
    /\ \E name \in DeviceOptions :
          /\ get_device_data(inventory, name) # NoRecord
          /\ device_name' = name
          /\ LET built == configure_cmds(action, interface, ip_address, subnet_mask) IN
                /\ cmds' = built
                /\ EnterSendConfig(get_conn_info(get_device_data(inventory, name)), built)
    /\ UNCHANGED <<action, interface, ip_address, subnet_mask, rendered>>
    /\ UNCHANGED <<sanVars, invVars, mainVars>>

RenNext ==
    \/ CallRender
    \/ ConfigureNotFound
    \/ Configure
    \/ ConnectHandler
    \/ Enable
    \/ ConnectReturn
    \/ ConnectExcept
    \/ CheckConn
    \/ Apply
    \/ Disconnect

SpecRender == RenInit /\ [][RenNext]_vars

(***************************************************************************)
(* Specification of the connection tool: its public functions, called with *)
(* any device of the inventory and any command list, again and again.      *)
(***************************************************************************)
CommandLines == {"interface Gi0/1", "no shutdown"}

RECURSIVE CommandLists(_)
CommandLists(n) ==
    IF n = 0 THEN {<<>>}
    ELSE LET shorter == CommandLists(n - 1) IN
         shorter \cup {Append(l, c) : l \in shorter, c \in CommandLines}

DepInit ==
    /\ InvIdle(<<Record("R1", "10.0.0.1"), Record("R2", "10.0.0.2")>>)
    /\ DepIdle
    /\ SanIdle
    /\ RenIdle
    /\ MainIdle

\* A caller invokes send_config(device, commands).
CallSendConfig ==
    /\ pc \in {"idle", "returned"}
    /\ calls < MaxCalls
    /\ \E i \in 1..Len(inventory), cmdlist \in CommandLists(MaxCmds) :
          EnterSendConfig(get_conn_info(inventory[i]), cmdlist)
    /\ UNCHANGED <<renVars, sanVars, invVars, mainVars>>

\* A caller invokes establish_connection(device_data): lines 47-48.
CallEstablishConnection ==
    /\ pc \in {"idle", "returned"}
    /\ calls < MaxCalls
    /\ \E i \in 1..Len(inventory) :
          EnterConnect("establish_connection", get_conn_info(inventory[i]), <<>>)
    /\ UNCHANGED <<renVars, sanVars, invVars, mainVars>>

\* A caller invokes get_interface_brief(device): line 95.
CallGetInterfaceBrief ==
    /\ pc \in {"idle", "returned"}
    /\ calls < MaxCalls
    /\ \E i \in 1..Len(inventory) :
          EnterConnect("get_interface_brief", get_conn_info(inventory[i]), <<>>)
    /\ UNCHANGED <<renVars, sanVars, invVars, mainVars>>

\* The connections a caller can pass to send_commands: None, or the handle that
\* establish_connection returned to it (also after an earlier send_commands).
HeldConnections ==
    {None} \cup (IF fn \in {"establish_connection", "send_commands"} THEN {conn} ELSE {})

\* A caller invokes send_commands(connection, commands): lines 61-68.  Nothing
\* is connected and nothing is disconnected.
CallSendCommands ==
    /\ pc \in {"idle", "returned"}
    /\ calls < MaxCalls
    /\ \E connection \in HeldConnections, cmdlist \in CommandLists(MaxCmds), reply \in Replies :
          /\ conn' = connection
          /\ sc_commands' = cmdlist
          /\ applyCalls' = IF connection = None THEN 0 ELSE 1
          /\ result' = send_commands(connection, reply)
    /\ fn' = "send_commands"
    /\ calls' = calls + 1
    /\ pc' = "returned"
    /\ established' = 0
    /\ disconnects' = 0
    /\ openFailed' = FALSE
    /\ output' = None
    /\ UNCHANGED <<device, openTransports>>
    /\ UNCHANGED <<renVars, sanVars, invVars, mainVars>>

DepNext ==
    \/ CallSendConfig
    \/ CallEstablishConnection
    \/ CallGetInterfaceBrief
    \/ CallSendCommands
    \/ ConnectHandler
    \/ Enable
    \/ ConnectReturn
    \/ ConnectExcept
    \/ CheckConn
    \/ Apply
    \/ Disconnect
    \/ BriefCheckConn
    \/ BriefSend
    \/ BriefDisconnect

SpecDeploy == DepInit /\ [][DepNext]_vars

(***************************************************************************)
(* Inputs of the sanitizer: texts built from at most MaxChunks pieces.     *)
(***************************************************************************)
\* The last two chunks are U+000B (vertical tab) and U+00A0 (no-break space).
Chunks ==
    {"Router(config)#", "(config)#", "R1(config)#", "#", "!", " ", "\n", "ip", "", " "}

RECURSIVE Texts(_)
Texts(n) ==
    IF n = 0 THEN {""}
    ELSE LET shorter == Texts(n - 1) IN
         shorter \cup {t \o c : t \in shorter, c \in Chunks}

(***************************************************************************)
(* Specification of the sanitizer: sanitize once, then sanitize the        *)
(* newline-joined result again.                                            *)
(***************************************************************************)
SanInit ==
    /\ config \in Texts(MaxChunks)
    /\ commands = <<>>
    /\ commands2 = <<>>
    /\ spc = "start"
    /\ InvIdle(<<>>)
    /\ DepIdle
    /\ RenIdle
    /\ MainIdle

Sanitize ==
    /\ spc = "start"
    /\ commands' = process_generated_config(config)
    /\ spc' = "once"
    /\ UNCHANGED <<config, commands2, depVars, renVars, invVars, mainVars>>

Resanitize ==
    /\ spc = "once"
    /\ commands2' = process_generated_config(join("\n", commands))
    /\ spc' = "twice"
    /\ UNCHANGED <<config, commands, depVars, renVars, invVars, mainVars>>

SanNext == Sanitize \/ Resanitize

SpecSanitize == SanInit /\ [][SanNext]_vars

(***************************************************************************)
(* inventory_tool.py: add_device and remove_device                         *)
(***************************************************************************)
add_device(inv, new_device) == Append(inv, new_device)

\* list.remove(x): drop the first element equal to x.
ListRemove(list, x) ==
    LET first == Min({j \in 1..Len(list) : list[j] = x}) IN
    SubSeq(list, 1, first - 1) \o SubSeq(list, first + 1, Len(list))

\* The for loop of remove_device from list position i on (1-based): the list
\* iterator keeps a position, and the list shrinks under it on a removal.
RECURSIVE RemoveLoop(_, _, _)
RemoveLoop(inv, i, name) ==
    IF i > Len(inv) THEN inv
    ELSE IF inv[i].Name = name
         THEN RemoveLoop(ListRemove(inv, inv[i]), i + 1, name)
         ELSE RemoveLoop(inv, i + 1, name)

remove_device(inv, name) == RemoveLoop(inv, 1, name)

InvInit ==
    /\ InvIdle(<<>>)
    /\ DepIdle
    /\ SanIdle
    /\ RenIdle
    /\ MainIdle

AddDevice ==
    /\ Len(inventory) < MaxInv
    /\ \E new_device \in Records :
          /\ inventory' = add_device(inventory, new_device)
          /\ lastOp' = <<"add", new_device.Name>>
    /\ before' = inventory
    /\ UNCHANGED <<sanVars, depVars, renVars, mainVars>>

RemoveDevice ==
    /\ \E name \in Names \cup {"R9"} :
          /\ inventory' = remove_device(inventory, name)
          /\ lastOp' = <<"remove", name>>
    /\ before' = inventory
    /\ UNCHANGED <<sanVars, depVars, renVars, mainVars>>

InvNext == AddDevice \/ RemoveDevice

SpecInventory == InvInit /\ [][InvNext]_vars

(***************************************************************************)
(* task-2/main.py: query_ollama, generate_device_config, main              *)
(***************************************************************************)
\* What the backend can do with a request: the request fails (unreachable, timed
\* out, HTTP error status, body that is no JSON object), or it answers with a JSON
\* object that holds no 'response', or with one whose 'response' is a text, or
\* with one whose 'response' is no text (null, a number, an array).
\* An outcome is <<kind, text, type of the 'response' value>>.
GeneratedTexts ==
    {"interface Gi0/1\nno shutdown", "Router(config)#no shutdown", "# nothing",
     "Error: unsupported request", ""}

NonTextTypes == {"NoneType", "int", "list"}

BackendOutcomes ==
    {<<"failed", "timed out", "">>, <<"no_response_field", "", "">>}
        \cup {<<"response", t, "str">> : t \in GeneratedTexts}
        \cup {<<"response", "", ty>> : ty \in NonTextTypes}

\* A Python value that is a str, and one of another type: <<type, text>>.
Str(t) == <<"str", t>>

\* lines 46-52: the value query_ollama returns.
query_ollama(outcome) ==
    IF outcome[1] = "failed" THEN Str("Error communicating with Ollama: " \o outcome[2])
    ELSE IF outcome[1] = "response" THEN <<outcome[3], outcome[2]>>
    ELSE Str("No response generated")

\* generate_device_config raised: line 89 calls startswith on a value that has none.
AttributeError == "<AttributeError>"

\* lines 87-94
generate_device_config(outcome) ==
    LET generated == query_ollama(outcome) IN
    IF generated[1] # "str" THEN AttributeError
    ELSE IF startswith(generated[2], "Error") THEN None
    ELSE generated[2]

\* str.lower() on ASCII letters.
UpperCase == <<"A", "B", "C", "D", "E", "F", "G", "H", "I", "J", "K", "L", "M",
               "N", "O", "P", "Q", "R", "S", "T", "U", "V", "W", "X", "Y", "Z">>
LowerCase == <<"a", "b", "c", "d", "e", "f", "g", "h", "i", "j", "k", "l", "m",
               "n", "o", "p", "q", "r", "s", "t", "u", "v", "w", "x", "y", "z">>

LowerChar(c) ==
    IF \E i \in 1..Len(UpperCase) : UpperCase[i] = c
    THEN LowerCase[CHOOSE i \in 1..Len(UpperCase) : UpperCase[i] = c]
    ELSE c

RECURSIVE lower(_)
lower(s) == IF s = "" THEN "" ELSE LowerChar(Head(s)) \o lower(Tail(s))

\* Python truth of a str-or-None value: `if generated_config:`.
Truthy(v) == v # None /\ v # ""

\* line 200: where the loop body goes after generate_device_config returned.
AfterGenerate(generated) == IF Truthy(generated) THEN "process" ELSE "complete"

\* A faulty variant: anything but 'n' counts as yes.
ApplyConfirmedUnlessNo(answer) == lower(answer) # "n"

\* line 214: apply.lower() == 'y'
ApplyConfirmed(answer) == lower(answer) = "y"

\* The third input is one U+00A0 (no-break space).
RequirementInputs == {"", "  ", " ", "enable Gi0/1"}
Answers == {"y", "Y", "n", "", "yes"}

MainRecords == {Record("R1", "10.0.0.1"), Record("R2", "10.0.0.2")}

RECURSIVE Inventories(_)
Inventories(n) ==
    IF n = 0 THEN {<<>>}
    ELSE LET shorter == Inventories(n - 1) IN
         shorter \cup {Append(inv, r) : inv \in shorter, r \in MainRecords}

MainInit ==
    /\ inventory \in Inventories(MaxDevices)
    /\ before = <<>>
    /\ lastOp = <<"none", "">>
    /\ DepIdle
    /\ SanIdle
    /\ RenIdle
    /\ MainIdle

Event(kind, i) == <<kind, i, inventory[i].Name>>

\* lines 174-179: read_inventory succeeds, or raises and main returns.
MainLoad ==
    /\ mpc = "start"
    /\ \E loaded \in BOOLEAN : mpc' = IF loaded THEN "ask" ELSE "done"
    /\ UNCHANGED <<requirements, idx, backend, generated_config, config_commands, apply, log>>
    /\ UNCHANGED <<sanVars, depVars, renVars, invVars>>

\* lines 184-188: read the requirements; blank requirements end the run.
MainAsk ==
    /\ mpc = "ask"
    /\ \E typed \in RequirementInputs :
          /\ requirements' = typed
          /\ IF strip(typed) = ""
             THEN mpc' = "done" /\ idx' = idx
             ELSE /\ idx' = 1
                  /\ mpc' = IF Len(inventory) >= 1 THEN "generate" ELSE "done"
    /\ UNCHANGED <<backend, generated_config, config_commands, apply, log>>
    /\ UNCHANGED <<sanVars, depVars, renVars, invVars>>

\* lines 198-200: generated_config = generate_device_config(device_data, requirements).
\* An exception it raises is caught nowhere: main ends with it.
MainGenerate ==
    /\ mpc = "generate"
    /\ \E outcome \in BackendOutcomes :
          /\ backend' = outcome
          /\ IF generate_device_config(outcome) = AttributeError
             THEN /\ generated_config' = generated_config
                  /\ mpc' = "raised"
                  /\ log' = Append(log, Event("generate", idx))
             ELSE /\ generated_config' = generate_device_config(outcome)
                  /\ mpc' = AfterGenerate(generate_device_config(outcome))
                  /\ log' = IF generate_device_config(outcome) = None
                            THEN log \o <<Event("generate", idx),
                                          Event("generation_failed", idx)>>
                            ELSE Append(log, Event("generate", idx))
    /\ UNCHANGED <<requirements, idx, config_commands, apply>>
    /\ UNCHANGED <<sanVars, depVars, renVars, invVars>>

\* lines 207-209 and 219-220: config_commands = process_generated_config(generated_config)
MainProcess ==
    /\ mpc = "process"
    /\ config_commands' = process_generated_config(generated_config)
    /\ IF process_generated_config(generated_config) # <<>>
       THEN mpc' = "confirm" /\ log' = log
       ELSE mpc' = "complete" /\ log' = Append(log, Event("no_commands", idx))
    /\ UNCHANGED <<requirements, idx, backend, generated_config, apply>>
    /\ UNCHANGED <<sanVars, depVars, renVars, invVars>>

\* lines 213-218: ask; on 'y' print that deployment comes with Task 3, else that the
\* configuration was not applied. Neither branch opens a session.
MainConfirm ==
    /\ mpc = "confirm"
    /\ \E answer \in Answers :
          /\ apply' = answer
          /\ log' = Append(log, Event(IF ApplyConfirmed(answer) THEN "deploy" ELSE "not_applied",
                                      idx))
    /\ mpc' = "complete"
    /\ UNCHANGED <<requirements, idx, backend, generated_config, config_commands>>
    /\ UNCHANGED <<sanVars, depVars, renVars, invVars>>

\* line 222 and the loop head, line 191: the next record, or the end of the run.
\* The locals of the loop body are dead until the next iteration assigns them.
MainComplete ==
    /\ mpc = "complete"
    /\ log' = Append(log, Event("completed", idx))
    /\ idx' = idx + 1
    /\ mpc' = IF idx + 1 <= Len(inventory) THEN "generate" ELSE "done"
    /\ backend' = <<"none", "", "">>
    /\ generated_config' = None
    /\ config_commands' = <<>>
    /\ apply' = ""
    /\ UNCHANGED requirements
    /\ UNCHANGED <<sanVars, depVars, renVars, invVars>>

MainNext ==
    \/ MainLoad
    \/ MainAsk
    \/ MainGenerate
    \/ MainProcess
    \/ MainConfirm
    \/ MainComplete

SpecMain == MainInit /\ [][MainNext]_vars

(***************************************************************************)
(* Properties                                                              *)
(***************************************************************************)

\* C1: when send_config has returned, every transport connection established
\* during the call has been disconnected exactly once: none is left open.
C1_NoSessionLeftOpen ==
    (fn = "send_config" /\ pc = "returned") => disconnects = established

\* C2: if opening the session fails, send_config reports the failure and
\* send_config_set is never called for that invocation.
C2_NoApplyAfterFailedOpen ==
    (fn = "send_config" /\ openFailed) =>
        /\ applyCalls = 0
        /\ pc \notin {"sc_apply", "sc_finally"}
        /\ pc = "returned" => output = ConnectionFailedText

C2_Witness ==
    /\ fn = "send_config"
    /\ pc = "returned"
    /\ openFailed
    /\ sc_commands # <<>>
    /\ output = ConnectionFailedText
    /\ applyCalls = 0

\* C3: deploying an empty command list to a reachable device is a successful
\* no-op: send_config_set is never called and the output is empty, through
\* send_config and through send_commands on an open connection.
C3_EmptyListIsNoOp ==
    /\ (fn = "send_config" /\ pc = "returned" /\ ~openFailed /\ sc_commands = <<>>) =>
          (applyCalls = 0 /\ output = "")
    /\ (fn = "send_commands" /\ conn # None /\ sc_commands = <<>>) =>
          (applyCalls = 0 /\ result = [success |-> TRUE, output |-> ""])

\* C4: the sanitizer is idempotent: sanitizing the newline-joined output of a
\* first pass returns exactly that output.
C4_Idempotent ==
    spc = "twice" => commands2 = commands

\* The simulated-prompt prefixes, in the order the sanitizer tries them.
Prefixes == <<"Router(config)#", "(config)#", "R1(config)#">>

\* What C5 says a line becomes: the trimmed line less its one leading prefix,
\* trimmed again; nothing for an empty or comment line.
LeadingPrefixOnly(raw) ==
    LET line == strip(raw)
        matching == {k \in 1..Len(Prefixes) : startswith(line, Prefixes[k])}
        kept == IF matching = {} THEN line
                ELSE strip(SubSeq(line, Len(Prefixes[Min(matching)]) + 1, Len(line)))
    IN IF line = "" \/ startswith(line, "#") \/ startswith(line, "!") \/ kept = ""
       THEN <<>> ELSE <<kept>>

RECURSIVE LeadingPrefixOnlyLines(_)
LeadingPrefixOnlyLines(lines) ==
    IF lines = <<>> THEN <<>>
    ELSE LeadingPrefixOnly(Head(lines)) \o LeadingPrefixOnlyLines(Tail(lines))

\* C5: a recognized prefix is removed only at the start of the trimmed line; the
\* text after it, later occurrences of the prefix included, is kept unchanged,
\* and a line without leading prefix or comment marker passes through.
C5_OnlyLeadingPrefixRemoved ==
    spc # "start" =>
        commands = IF config = "" THEN <<>>
                   ELSE LeadingPrefixOnlyLines(split(strip(config), "\n"))

\* The three lines of a create-intent render.
CreateLines == <<"interface " \o interface,
                 "ip address " \o ip_address \o " " \o subnet_mask,
                 "no shutdown">>

\* C6 as stated: for non-empty interface, address and mask, a create-intent render
\* is exactly the three lines, and `configure` builds the identical list.
C6_CreateRendersThreeLines ==
    (action = "create" /\ interface # "" /\ ip_address # "" /\ subnet_mask # "") =>
        /\ rendered # NoList => rendered = CreateLines
        /\ (rendered # NoList /\ cmds # NoList) => cmds = rendered

\* A value with no line break in it and no whitespace at either end.
Clean(v) == v # "" /\ strip(v) = v /\ Positions(v, LineBreaks) = {}

\* C6, amended: the same for values that hold no line break and neither begin nor
\* end with whitespace.
C6_CleanCreateRendersThreeLines ==
    (action = "create" /\ Clean(interface) /\ Clean(ip_address) /\ Clean(subnet_mask)) =>
        /\ rendered # NoList =>
              /\ rendered = CreateLines
              /\ Len(rendered) = 3
              /\ \A k \in 1..3 : rendered[k] # "" /\ strip(rendered[k]) = rendered[k]
        /\ (rendered # NoList /\ cmds # NoList) => cmds = rendered

C6_Witness ==
    /\ action = "create"
    /\ Clean(interface) /\ Clean(ip_address) /\ Clean(subnet_mask)
    /\ interface # ip_address
    /\ rendered = CreateLines
    /\ cmds = rendered
    /\ sc_commands = cmds
    /\ pc = "returned"

\* The records the loop has reached (kind "generate") or finished ("completed").
EventsOf(kind) == SelectSeq(log, LAMBDA e : e[1] = kind)

InOrder(events, n) ==
    /\ Len(events) = n
    /\ \A k \in 1..n : events[k][2] = k /\ events[k][3] = inventory[k].Name

\* main is over (it returned or ended with an exception) after it entered the loop.
RunEnded == mpc \in {"done", "raised"} /\ strip(requirements) # ""

\* C7: main processes every inventory record exactly once, in inventory order; a
\* generation failure for one device does not end the run: every later record
\* is generated for and completed before the run ends.
C7_EveryRecordProcessedInOrder ==
    /\ InOrder(EventsOf("completed"), Len(EventsOf("completed")))
    /\ InOrder(EventsOf("generate"), Len(EventsOf("generate")))
    /\ Len(EventsOf("completed")) <= Len(EventsOf("generate"))
    /\ Len(EventsOf("generate")) <= Len(EventsOf("completed")) + 1
    /\ RunEnded =>
          /\ InOrder(EventsOf("completed"), Len(inventory))
          /\ InOrder(EventsOf("generate"), Len(inventory))

Affirmative == {"y", "Y"}

\* C8: the deployment branch is entered for a device only after an affirmative
\* answer given for that device; a declined confirmation opens no session and
\* sends no command, and the run goes on with the next record: the declined
\* record is completed and generation is attempted for the one after it.
C8_ApplyOnlyAfterConfirmation ==
    /\ (mpc = "complete" /\ log # <<>> /\ log[Len(log)][1] = "deploy") =>
          (log[Len(log)][2] = idx /\ apply \in Affirmative)
    /\ (mpc = "complete" /\ apply \notin Affirmative) =>
          (log = <<>> \/ log[Len(log)][1] # "deploy")
    /\ \A k \in 1..Len(log) : log[k][1] = "not_applied" =>
          /\ established = 0 /\ applyCalls = 0 /\ openTransports = 0
          /\ RunEnded =>
                /\ \E j \in k..Len(log) : log[j] = Event("completed", log[k][2])
                /\ log[k][2] < Len(inventory) =>
                      \E j \in k..Len(log) : log[j] = Event("generate", log[k][2] + 1)

C8_Witness ==
    /\ RunEnded
    /\ \E k \in 1..Len(log) : log[k][1] = "not_applied" /\ log[k][2] = 1
    /\ \E k \in 1..Len(log) : log[k][1] = "deploy" /\ log[k][2] = 2
    /\ \E k \in 1..Len(log) : log[k][1] = "completed" /\ log[k][2] = 2

\* C9: generate_device_config returns None exactly when the backend call failed
\* or answered without generated text; generated text is returned unchanged; an
\* answer without the text never becomes a command.
C9_NoneExactlyOnBackendFailure ==
    backend[1] # "none" =>
        /\ mpc # "raised"
        /\ generated_config = None <=> ~(backend[1] = "response" /\ backend[3] = "str")
        /\ (backend[1] = "response" /\ backend[3] = "str") => generated_config = backend[2]
        /\ backend[1] = "no_response_field" => config_commands = <<>>

\* C10: remove_device(inventory, n) leaves no record named n, and leaves every
\* other record present in its original relative order.
C10_RemoveLeavesNoSuchName ==
    lastOp[1] = "remove" =>
        /\ \A k \in 1..Len(inventory) : inventory[k].Name # lastOp[2]
        /\ inventory = SelectSeq(before, LAMBDA r : r.Name # lastOp[2])

====
